---- MODULE Spec2Model ----
(***************************************************************************)
(* Model of Tools/VLMService/vlm.py: the payload validator (is_vector,     *)
(* validate_payload), the retry orchestrator (request_with_validation),    *)
(* the ThreadPoolExecutor that runs its completion calls, and the request  *)
(* handler process_input.                                                  *)
(***************************************************************************)
EXTENDS Integers, Sequences, FiniteSets, TLC

(***************************************************************************)
(* Bounds of the model and constants of the program.                       *)
(***************************************************************************)
\* number of concurrent orchestration runs in the pool scenario
NRuns == 3
\* number of concurrent orchestration runs in the two-run scenario
NPair == 2
\* largest max_attempts a caller passes in the single-run scenario
MaxAttempts == 2
\* executor = ThreadPoolExecutor(max_workers=2)
max_workers == 2
\* def request_with_validation(base_messages, max_attempts=2)
default_max_attempts == 2

(***************************************************************************)
(* JSON values as json.loads builds them.  Every value is a record with a  *)
(* type tag t; scalars carry their literal as the string v, a dict carries *)
(* its items as the function f from keys to values.                        *)
(***************************************************************************)
None == [t |-> "null"]
JBool(b) == [t |-> "bool", v |-> b]
JInt(n) == [t |-> "int", v |-> n]
JFloat(n) == [t |-> "float", v |-> n]
JStr(s) == [t |-> "str", v |-> s]
JList(n) == [t |-> "list", v |-> n]
JDict(items) == [t |-> "dict", f |-> items]
EmptyItems == [k \in {} |-> None]

\* the int literal whose magnitude no double can hold (more than 308 digits)
HugeInt == JInt("1e400")

\* isinstance(value, dict) / isinstance(value, str)
isinstance_dict(value) == value.t = "dict"
isinstance_str(value) == value.t = "str"

\* dict.get(key): the value stored under key, None when the key is absent
get(d, key) == IF key \in DOMAIN d.f THEN d.f[key] ELSE None

\* a test for None in place of the truth value
truthy_not_none(value) == value.t # "null"

\* Python truth value of a JSON value (what `not value` negates)
truthy(value) ==
    CASE value.t = "null" -> FALSE
      [] value.t = "bool" -> value.v = "true"
      [] value.t = "int" -> value.v # "0"
      [] value.t = "float" -> value.v \notin {"0.0", "-0.0"}
      [] value.t = "str" -> value.v # ""
      [] value.t = "list" -> value.v # "[]"
      [] value.t = "dict" -> DOMAIN value.f # {}

\* the strings float() parses: decimal literals and the names of nan and infinity
NumericStrings == {"1.5", "0", "-2", "1e999", "nan", "inf", "-Infinity"}

\* float(value): "ok" when it returns, else the exception it raises
float(value) ==
    CASE value.t \in {"null", "list", "dict"} -> "TypeError"
      [] value.t = "bool" -> "ok"
      [] value.t = "int" -> IF value = HugeInt THEN "OverflowError" ELSE "ok"
      [] value.t = "float" -> "ok"
      [] value.t = "str" -> IF value.v \in NumericStrings THEN "ok" ELSE "ValueError"

\* a lower() that returns its argument
lower_omitted(s) == s

\* str.lower() on the command strings of the model
lower(s) ==
    CASE s \in {"Spawn_Object", "SPAWN_OBJECT", "spawn_Object"} -> "spawn_object"
      [] s \in {"Delete_Object", "DELETE_OBJECT"} -> "delete_object"
      [] s \in {"Translate_Mesh", "TRANSLATE_MESH"} -> "translate_mesh"
      [] s \in {"Rotate_Mesh", "ROTATE_MESH"} -> "rotate_mesh"
      [] s \in {"Unknown", "UNKNOWN"} -> "unknown"
      [] s = "Scale_Mesh" -> "scale_mesh"
      [] OTHER -> s

\* a registry that lists the command the prompts ask for when in doubt
ALLOWED_WITH_UNKNOWN ==
    {"spawn_object", "delete_object", "translate_mesh", "rotate_mesh", "unknown"}

ALLOWED_COMMANDS == {"spawn_object", "delete_object", "translate_mesh", "rotate_mesh"}

(***************************************************************************)
(* is_vector(value): "True", "False", or the exception that escapes it.    *)
(* float() is applied to x, y and z in that order; TypeError and           *)
(* ValueError are caught, any other exception propagates.                  *)
(***************************************************************************)
FirstFailure(value) ==
    IF float(value.f["x"]) # "ok" THEN float(value.f["x"])
    ELSE IF float(value.f["y"]) # "ok" THEN float(value.f["y"])
    ELSE float(value.f["z"])

is_vector(value) ==
    IF ~isinstance_dict(value) THEN "False"
    ELSE IF ~({"x", "y", "z"} \subseteq DOMAIN value.f) THEN "False"
    ELSE IF FirstFailure(value) \in {"TypeError", "ValueError"} THEN "False"
    ELSE IF FirstFailure(value) = "ok" THEN "True"
    ELSE FirstFailure(value)

(***************************************************************************)
(* validate_payload(payload).  The result records the returned pair        *)
(* (valid, diag), the payload object as the call leaves it (the command    *)
(* field is rewritten in place) and exc, the exception that escapes the    *)
(* call ("none" when it returns).                                          *)
(***************************************************************************)
Verdict(valid, diag, payload, exc) ==
    [valid |-> valid, diag |-> diag, payload |-> payload, exc |-> exc]

Returns(valid, diag, payload) == Verdict(valid, diag, payload, "none")
Raises(exc, payload) == Verdict(FALSE, "", payload, exc)

\* `a and b` in place of `a or b`
AndVector(a, b) == IF a = "True" THEN b ELSE a

\* `a or b` over is_vector results: b is evaluated only when a returned False
OrVector(a, b) == IF a = "False" THEN b ELSE a

\* a validator that stops after the registry lookup
FieldCheckSkipped(command_lower, p) == Returns(TRUE, "", p)

\* the per-command field checks (lines 73-121), on the payload after line 71
FieldCheck(command_lower, p) ==
    CASE command_lower = "spawn_object" ->
           IF ~truthy(get(p, "primitive_type"))
           THEN Returns(FALSE, "spawn_object requires 'primitive_type'.", p)
           ELSE Returns(TRUE, "", p)
      [] command_lower = "delete_object" ->
           IF ~truthy(get(p, "object_name"))
           THEN Returns(FALSE, "delete_object requires 'object_name'.", p)
           ELSE Returns(TRUE, "", p)
      [] command_lower = "translate_mesh" ->
           LET v == OrVector(is_vector(get(p, "offset")), is_vector(get(p, "position")))
           IN  IF v = "False"
               THEN Returns(FALSE, "translate_mesh requires 'offset' or 'position' vector.", p)
               ELSE IF v = "True" THEN Returns(TRUE, "", p) ELSE Raises(v, p)
      [] command_lower = "rotate_mesh" ->
           LET v == is_vector(get(p, "rotation"))
           IN  IF v = "False"
               THEN Returns(FALSE, "rotate_mesh requires 'rotation' vector.", p)
               ELSE IF v = "True" THEN Returns(TRUE, "", p) ELSE Raises(v, p)
      [] OTHER -> Returns(TRUE, "", p)

\* a rebuilt payload in place of the assignment to one key
SetCommandOnly(payload, command_lower) == JDict([command |-> JStr(command_lower)])

\* payload["command"] = command_lower
SetCommand(payload, command_lower) ==
    JDict([k \in DOMAIN payload.f \cup {"command"} |->
              IF k = "command" THEN JStr(command_lower) ELSE payload.f[k]])

validate_payload(payload) ==
    IF ~isinstance_dict(payload)
    THEN Returns(FALSE, "Response must be a JSON object.", payload)
    ELSE LET command == get(payload, "command")
         IN  IF ~truthy(command) \/ ~isinstance_str(command)
             THEN Returns(FALSE, "Missing or invalid 'command' field.", payload)
             ELSE IF lower(command.v) \notin ALLOWED_COMMANDS
             THEN Returns(FALSE,
                          "Command '" \o command.v \o "' is not in the allowed list.",
                          payload)
             ELSE FieldCheck(lower(command.v), SetCommand(payload, lower(command.v)))

(***************************************************************************)
(* Completions.  The text a completion call returns is a record: id is the *)
(* call that produced it, form says what the text is ("json" a JSON        *)
(* document, "fenced" a JSON document inside a markdown code fence,        *)
(* "prose" free text), val is the JSON value the document denotes and ws   *)
(* says whether whitespace surrounds the text.                             *)
(***************************************************************************)
NoCall == <<0, 0>>
EmptyText == [id |-> NoCall, ws |-> FALSE, form |-> "empty", val |-> None]
Body(form, val, ws) == [form |-> form, val |-> val, ws |-> ws]
Completion(c, body) == [id |-> c, ws |-> body.ws, form |-> body.form, val |-> body.val]

\* a strip() that was left out: the text keeps its surrounding whitespace
strip_omitted(text) == text

\* str.strip()
strip(text) == [text EXCEPT !.ws = FALSE]

\* a parser that unwraps a code fence instead of rejecting it
json_loads_lenient(text) ==
    IF text.form \in {"json", "fenced"}
    THEN [ok |-> TRUE, value |-> text.val, exc |-> ""]
    ELSE [ok |-> FALSE, value |-> None, exc |-> "Expecting value: line 1 column 1 (char 0)"]

\* json.loads(text): the parsed value, or the JSONDecodeError it raises
json_loads(text) ==
    IF text.form = "json"
    THEN [ok |-> TRUE, value |-> text.val, exc |-> ""]
    ELSE [ok |-> FALSE, value |-> None, exc |-> "Expecting value: line 1 column 1 (char 0)"]

Vec(x, y, z) == JDict([x |-> x, y |-> y, z |-> z])

P_translate ==
    JDict([command |-> JStr("translate_mesh"),
           offset |-> Vec(JInt("1"), JInt("2"), JInt("3"))])
P_spawn_mixed ==
    JDict([command |-> JStr("Spawn_Object"), primitive_type |-> JStr("Cube")])
P_delete == JDict([command |-> JStr("delete_object"), object_name |-> JStr("Cube_A")])
P_rotate ==
    JDict([command |-> JStr("rotate_mesh"),
           rotation |-> Vec(JStr("1.5"), JInt("0"), JInt("-2"))])
P_unknown == JDict([command |-> JStr("unknown"), reason |-> JStr("need clarification")])
P_spawn_missing == JDict([command |-> JStr("spawn_object")])
P_list == JList("[1]")
P_spawn_number == JDict([command |-> JStr("spawn_object"), primitive_type |-> JInt("5")])
P_translate_nan ==
    JDict([command |-> JStr("translate_mesh"),
           position |-> Vec(JFloat("nan"), JInt("0"), JInt("0"))])
P_rotate_huge ==
    JDict([command |-> JStr("rotate_mesh"),
           rotation |-> Vec(JInt("1"), HugeInt, JInt("0"))])

\* what the model may answer in the single-run scenario
RichBackend ==
    { Body("prose", None, FALSE),
      Body("fenced", P_translate, TRUE),
      Body("json", P_translate, TRUE),
      Body("json", P_spawn_mixed, FALSE),
      Body("json", P_delete, FALSE),
      Body("json", P_rotate, FALSE),
      Body("json", P_unknown, FALSE),
      Body("json", P_spawn_missing, TRUE),
      Body("json", P_list, FALSE),
      Body("json", P_spawn_number, FALSE),
      Body("json", P_translate_nan, FALSE),
      Body("json", P_rotate_huge, FALSE) }

\* what the model may answer in the two-run scenario
PairBackend ==
    { Body("prose", None, TRUE),
      Body("json", P_spawn_mixed, FALSE),
      Body("json", P_unknown, FALSE) }

\* what the model may answer in the pool scenario: free text, so that every
\* run goes through its whole budget of calls
PoolBackend == { Body("prose", None, FALSE) }

(***************************************************************************)
(* State.                                                                  *)
(***************************************************************************)
VARIABLES
    scenario,        \* which answers ollama.chat may give: "single", "pair", "pool"
    pc,              \* where each run stands
    max_attempts,    \* argument max_attempts of each run
    attempt,         \* loop variable attempt of each run
    base_messages,   \* argument base_messages of each run: a reference to a list
    messages,        \* local messages of each run: a reference to a list
    heap,            \* the list objects: reference -> sequence of turns
    last_output,     \* local last_output of each run
    error_message,   \* local error_message of each run
    future,          \* local future of each run
    futures,         \* the Future objects, by call
    work_queue,      \* the executor's queue of work items
    ret              \* what each run returned

VARIABLES
    arg,             \* the value a caller of the validator holds and passes to it
    calls,           \* the calls of is_vector and validate_payload made on arg so far
    chat_history,    \* the module global chat_history
    requests         \* the /process requests: the frame of each call of process_input

\* the state outside request_with_validation and the executor
validator_vars == <<arg, calls>>
handler_vars == <<chat_history, requests>>

vars ==
    <<scenario, pc, max_attempts, attempt, base_messages, messages, heap,
      last_output, error_message, future, futures, work_queue, ret,
      arg, calls, chat_history, requests>>

\* nobody calls the validator directly
NoValidatorCalls == arg = None /\ calls = <<>>

\* the module as imported (chat_history = ""), no /process request under way
NoRequests == chat_history = "" /\ requests = <<>>

NoRef == <<"none", 0>>
BaseRef(r) == <<"base", r>>
LocalRef(r) == <<"messages", r>>

NotReturned == [returned |-> FALSE]
Returned(payload, raw_output, success, error) ==
    [returned |-> TRUE, payload |-> payload, raw |-> raw_output,
     success |-> success, error |-> error]

\* the call of attempt index k (0-based) of run r
CallId(r, k) == <<r, k + 1>>

\* the conversation process_input builds: one user turn
InitialTurn(r) == [role |-> "user", content |-> [t |-> "prompt", run |-> r]]

\* an assignment instead of a copy: the same object under a second name
deepcopy_alias(h, src, dst) == [heap |-> h, ref |-> src]

\* copy.deepcopy(list): a new object equal to the argument
deepcopy(h, src, dst) == [heap |-> h @@ (dst :> h[src]), ref |-> dst]

\* list.extend(turns)
extend(h, ref, turns) == [h EXCEPT ![ref] = @ \o turns]

\* a correction that leaves out the assistant turn echoing the output
ParseCorrectionNoEcho(llm_output, exc) ==
    << [role |-> "user",
        content |-> JStr("Your response could not be parsed as JSON (" \o exc \o ").")] >>

\* the corrective pair appended after a JSONDecodeError (lines 208-221)
ParseCorrection(llm_output, exc) ==
    << [role |-> "assistant", content |-> llm_output],
       [role |-> "user",
        content |-> JStr("Your response could not be parsed as JSON (" \o exc \o "). "
                         \o "Reply again with JSON only, no code fences or commentary, using one of the allowed commands. "
                         \o "Do not include ellipses or placeholder values. "
                         \o "If you cannot resolve the direction from the context, respond with {command: unknown, reason: need clarification}.")] >>

\* the corrective pair appended after a failed validation (lines 231-243)
ValidationCorrection(llm_output, validation_error) ==
    << [role |-> "assistant", content |-> llm_output],
       [role |-> "user",
        content |-> JStr(validation_error
                         \o " Use one of the allowed command names exactly as listed and include the required fields. "
                         \o "Respond with JSON only and avoid ellipses or placeholder tokens. "
                         \o "If the context is insufficient, respond with {command: unknown, reason: need clarification}.")] >>

\* error_message or "Model response was not valid after retries"
OrDefault(err) ==
    IF truthy(err) THEN err ELSE JStr("Model response was not valid after retries")

\* the calls of request_with_validation of the scenario
runs == DOMAIN pc

\* the bodies ollama.chat may answer with
backend ==
    CASE scenario = "pool" -> PoolBackend
      [] scenario = "pair" -> PairBackend
      [] OTHER -> RichBackend

\* the exceptions ollama.chat may raise
transport_errors == IF scenario = "pool" THEN {} ELSE {"ConnectionError"}

InitWith(name, rs, budgets) ==
    /\ scenario = name
    /\ pc = [r \in rs |-> "ready"]
    /\ max_attempts \in [rs -> budgets]
    /\ attempt = [r \in rs |-> 0]
    /\ base_messages = [r \in rs |-> BaseRef(r)]
    /\ messages = [r \in rs |-> NoRef]
    /\ heap = [ref \in {BaseRef(r) : r \in rs} |-> <<InitialTurn(ref[2])>>]
    /\ last_output = [r \in rs |-> EmptyText]
    /\ error_message = [r \in rs |-> None]
    /\ future = [r \in rs |-> NoCall]
    /\ futures = [c \in {} |-> None]
    /\ work_queue = <<>>
    /\ ret = [r \in rs |-> NotReturned]
    /\ NoValidatorCalls
    /\ NoRequests

\* one run, any budget up to MaxAttempts, the full range of answers
Init == InitWith("single", {1}, 0..MaxAttempts)

\* NPair concurrent runs with the default budget
InitPair == InitWith("pair", 1..NPair, {default_max_attempts})

\* NRuns concurrent runs with the default budget
InitPool == InitWith("pool", 1..NRuns, {default_max_attempts})

(***************************************************************************)
(* The executor: submit, the worker threads, Future.cancel.                *)
(***************************************************************************)
NewFuture(args) ==
    [state |-> "PENDING", result |-> EmptyText, exception |-> "", args |-> args]

\* executor.submit(ollama.chat, ...): a PENDING future, its work item at the tail
submit(r, c, args) ==
    /\ futures' = futures @@ (c :> NewFuture(args))
    /\ work_queue' = Append(work_queue, c)
    /\ future' = [future EXCEPT ![r] = c]

Running == {c \in DOMAIN futures : futures[c].state = "RUNNING"}

\* a stack instead of a queue: the newest work item leaves first
DequeueNewest(q) == [item |-> q[Len(q)], rest |-> SubSeq(q, 1, Len(q) - 1)]

\* work_queue.get(): the oldest work item leaves the queue
Dequeue(q) == [item |-> Head(q), rest |-> Tail(q)]

\* a worker thread takes a work item; a cancelled one is dropped
\* (set_running_or_notify_cancel returns False), any other starts running
WorkerTake ==
    /\ Cardinality(Running) < max_workers
    /\ work_queue # <<>>
    /\ LET c == Dequeue(work_queue).item
       IN  /\ work_queue' = Dequeue(work_queue).rest
           /\ futures' = IF futures[c].state = "CANCELLED" THEN futures
                         ELSE [futures EXCEPT ![c].state = "RUNNING"]
    /\ UNCHANGED <<scenario, pc, max_attempts, attempt, base_messages, messages,
                   heap, last_output, error_message, future, ret>>

\* ollama.chat ends in a worker: future.set_result(response) when it returns,
\* future.set_exception(exc) when it raises
WorkerFinish(c) ==
    /\ futures[c].state = "RUNNING"
    /\ \/ \E b \in backend :
             futures' = [futures EXCEPT ![c].state = "FINISHED",
                                        ![c].result = Completion(c, b)]
       \/ \E exc \in transport_errors :
             futures' = [futures EXCEPT ![c].state = "FINISHED",
                                        ![c].exception = exc]
    /\ UNCHANGED <<scenario, pc, max_attempts, attempt, base_messages, messages,
                   heap, last_output, error_message, future, work_queue, ret>>

\* Future.cancel(): only a PENDING future becomes CANCELLED
cancel(f) == IF f.state = "PENDING" THEN [f EXCEPT !.state = "CANCELLED"] ELSE f


(***************************************************************************)
(* request_with_validation.  A run blocks only in future.result(); each    *)
(* action below is the code a run executes between two such waits.         *)
(***************************************************************************)
TimeoutMessage == JStr("Ollama request failed: timeout")
TransportMessage(exc) == JStr("Ollama request failed: " \o exc)

\* a result() that does not wait for the call to finish
ResultAssumedReady(f) == TRUE

\* future.result(timeout=30.0) has something to deliver
ResultReady(f) == f.state = "FINISHED"

\* leave the loop (break, or the range is used up) and return the failure
\* (lines 245-246)
ReturnFailure(r, lo, err) ==
    /\ pc' = [pc EXCEPT ![r] = "done"]
    /\ ret' = [ret EXCEPT ![r] = Returned(None, lo, FALSE, OrDefault(err))]
    /\ UNCHANGED <<attempt, future, futures, work_queue>>

\* the loop head for index k: submit the call of attempt k and wait for it,
\* or fall out of the loop when range(max_attempts) is used up
Iterate(r, k, lo, err, ref) ==
    IF k < max_attempts[r]
    THEN /\ attempt' = [attempt EXCEPT ![r] = k]
         /\ submit(r, CallId(r, k), ref)
         /\ pc' = [pc EXCEPT ![r] = "await"]
         /\ ret' = ret
    ELSE ReturnFailure(r, lo, err)

\* the entry of request_with_validation up to the first wait (lines 170-188)
Call(r) ==
    /\ pc[r] = "ready"
    /\ LET copy == deepcopy(heap, base_messages[r], LocalRef(r))
       IN  /\ heap' = copy.heap
           /\ messages' = [messages EXCEPT ![r] = copy.ref]
           /\ Iterate(r, 0, EmptyText, None, copy.ref)
    /\ UNCHANGED <<scenario, max_attempts, base_messages, last_output, error_message>>

\* a content failure that retries without appending the corrective pair
ContentFailureNoFeedback(r, llm_output, err, correction) ==
    /\ heap' = heap
    /\ last_output' = [last_output EXCEPT ![r] = llm_output]
    /\ error_message' = [error_message EXCEPT ![r] = err]
    /\ Iterate(r, attempt[r] + 1, llm_output, err, messages[r])

\* a content failure (lines 205-222, 229-243): record the diagnostic, append
\* the corrective pair, go on with the next iteration
ContentFailure(r, llm_output, err, correction) ==
    /\ heap' = extend(heap, messages[r], correction)
    /\ last_output' = [last_output EXCEPT ![r] = llm_output]
    /\ error_message' = [error_message EXCEPT ![r] = err]
    /\ Iterate(r, attempt[r] + 1, llm_output, err, messages[r])

\* validation passed (lines 225-227)
ReturnSuccess(r, payload, llm_output) ==
    /\ pc' = [pc EXCEPT ![r] = "done"]
    /\ ret' = [ret EXCEPT ![r] = Returned(payload, llm_output, TRUE, None)]
    /\ last_output' = [last_output EXCEPT ![r] = llm_output]
    /\ UNCHANGED <<heap, error_message, attempt, future, futures, work_queue>>

\* an exception no handler of the function catches leaves the function
Propagate(r, llm_output) ==
    /\ pc' = [pc EXCEPT ![r] = "raised"]
    /\ last_output' = [last_output EXCEPT ![r] = llm_output]
    /\ UNCHANGED <<heap, error_message, attempt, future, futures, work_queue, ret>>

\* a handler that goes on with the next iteration instead of breaking
TransportRetried(r, exc) ==
    /\ error_message' = [error_message EXCEPT ![r] = TransportMessage(exc)]
    /\ Iterate(r, attempt[r] + 1, last_output[r], TransportMessage(exc), messages[r])
    /\ UNCHANGED <<heap, last_output>>

\* except Exception (lines 195-198), then lines 245-246
TransportFailure(r, exc) ==
    /\ error_message' = [error_message EXCEPT ![r] = TransportMessage(exc)]
    /\ ReturnFailure(r, last_output[r], TransportMessage(exc))
    /\ UNCHANGED <<heap, last_output>>

\* future.result() delivers: it re-raises the exception of the call, or
\* returns the response, which is stripped, parsed and validated (lines 199-243)
Receive(r) ==
    /\ pc[r] = "await"
    /\ ResultReady(futures[future[r]])
    /\ LET llm_output == strip(futures[future[r]].result)
           parsed == json_loads(llm_output)
           v == validate_payload(parsed.value)
       IN  IF futures[future[r]].exception # ""
           THEN TransportFailure(r, futures[future[r]].exception)
           ELSE IF ~parsed.ok
           THEN ContentFailure(r, llm_output,
                               JStr("Model response was not valid JSON: " \o parsed.exc),
                               ParseCorrection(llm_output, parsed.exc))
           ELSE IF v.exc # "none" THEN Propagate(r, llm_output)
           ELSE IF v.valid THEN ReturnSuccess(r, v.payload, llm_output)
           ELSE ContentFailure(r, llm_output,
                               JStr("Invalid command payload: " \o v.diag),
                               ValidationCorrection(llm_output, v.diag))
    /\ UNCHANGED <<scenario, max_attempts, base_messages, messages>>

\* a handler that notes the timeout and goes back to waiting for the result
DeadlineSwallowed(r) ==
    /\ pc[r] = "await"
    /\ ~ResultReady(futures[future[r]])
    /\ error_message' = [error_message EXCEPT ![r] = TimeoutMessage]
    /\ UNCHANGED <<scenario, pc, max_attempts, attempt, base_messages, messages, heap,
                   last_output, future, futures, work_queue, ret>>

\* future.result() raises FuturesTimeoutError: the deadline passed with the
\* future unfinished (lines 189-191)
DeadlineExpires(r) ==
    /\ pc[r] = "await"
    /\ ~ResultReady(futures[future[r]])
    /\ error_message' = [error_message EXCEPT ![r] = TimeoutMessage]
    /\ pc' = [pc EXCEPT ![r] = "cancel"]
    /\ UNCHANGED <<scenario, max_attempts, attempt, base_messages, messages, heap,
                   last_output, future, futures, work_queue, ret>>

\* future.cancel(); break; return (lines 192-194, 245-246)
CancelAndFail(r) ==
    /\ pc[r] = "cancel"
    /\ futures' = [futures EXCEPT ![future[r]] = cancel(@)]
    /\ pc' = [pc EXCEPT ![r] = "done"]
    /\ ret' = [ret EXCEPT ![r] =
                  Returned(None, last_output[r], FALSE, OrDefault(error_message[r]))]
    /\ UNCHANGED <<scenario, max_attempts, attempt, base_messages, messages, heap,
                   last_output, error_message, future, work_queue>>

Next ==
    \/ \E r \in runs : Call(r) /\ UNCHANGED <<validator_vars, handler_vars>>
    \/ \E r \in runs : Receive(r) /\ UNCHANGED <<validator_vars, handler_vars>>
    \/ \E r \in runs : DeadlineExpires(r) /\ UNCHANGED <<validator_vars, handler_vars>>
    \/ \E r \in runs : CancelAndFail(r) /\ UNCHANGED <<validator_vars, handler_vars>>
    \/ WorkerTake /\ UNCHANGED <<validator_vars, handler_vars>>
    \/ \E c \in DOMAIN futures : WorkerFinish(c) /\ UNCHANGED <<validator_vars, handler_vars>>

Spec == Init /\ [][Next]_vars
SpecPair == InitPair /\ [][Next]_vars
SpecPool == InitPool /\ [][Next]_vars

(***************************************************************************)
(* Direct calls of the validator.  A caller holds a value that json.loads  *)
(* can produce and passes it to is_vector and validate_payload, up to      *)
(* MaxCalls times; validate_payload works on the caller's object, so what  *)
(* it writes is what the caller holds afterwards.                          *)
(***************************************************************************)
\* number of validator calls made on one value
MaxCalls == 2

run_vars ==
    <<scenario, pc, max_attempts, attempt, base_messages, messages, heap,
      last_output, error_message, future, futures, work_queue, ret>>

\* no call of request_with_validation is under way
NoRuns(name) ==
    /\ scenario = name
    /\ pc = <<>>
    /\ max_attempts = <<>>
    /\ attempt = <<>>
    /\ base_messages = <<>>
    /\ messages = <<>>
    /\ heap = <<>>
    /\ last_output = <<>>
    /\ error_message = <<>>
    /\ future = <<>>
    /\ futures = <<>>
    /\ work_queue = <<>>
    /\ ret = <<>>

\* a key that the document does not have
Absent == [t |-> "absent"]

\* the dict of the items that are present
Object(items) ==
    JDict([k \in {key \in DOMAIN items : items[key] # Absent} |-> items[k]])

\* what an axis of a vector may hold: numbers, numeric and other strings,
\* NaN and Infinity (json.loads reads both), an integer beyond the doubles,
\* null and a boolean
AxisValues ==
    { JInt("1"), JFloat("-2.5"), JStr("1.5"), JStr("a"), JFloat("nan"),
      JFloat("inf"), HugeInt, None, JBool("true") }

\* documents that are or resemble vectors
VectorInputs ==
    { Object([x |-> x, y |-> y, z |-> z]) :
          x \in AxisValues \cup {Absent},
          y \in {JInt("2"), JStr("1.5"), HugeInt, JStr("nan"), Absent},
          z \in {JInt("3"), JStr("a"), JStr("1e999"), JList("[]"), Absent} }

\* documents that are not objects
ScalarInputs ==
    { None, JBool("false"), JInt("0"), JInt("7"), HugeInt, JFloat("1.5"),
      JStr(""), JStr("spawn_object"), JList("[]"), JList("[1]") }

\* what the command field may hold
CommandInputs ==
    { Absent, None, JStr(""), JInt("5"), JBool("true"), JList("[1]"),
      JDict(EmptyItems) }
    \cup { JStr(name) : name \in ALLOWED_COMMANDS }
    \cup { JStr(name) : name \in
             {"Spawn_Object", "SPAWN_OBJECT", "Delete_Object", "DELETE_OBJECT",
              "Translate_Mesh", "TRANSLATE_MESH", "Rotate_Mesh", "ROTATE_MESH",
              "unknown", "Unknown", "scale_mesh", "Scale_Mesh"} }

V_ints == Vec(JInt("1"), JInt("2"), JInt("3"))
V_strings == Vec(JStr("1.5"), JInt("0"), JInt("-2"))
V_missing_z == JDict([x |-> JInt("1"), y |-> JInt("2")])
V_letter == Vec(JStr("a"), JInt("0"), JInt("0"))
V_nan == Vec(JFloat("nan"), JInt("0"), JInt("0"))
V_huge == Vec(JInt("1"), HugeInt, JInt("0"))

\* documents that are objects: every combination of the fields the validator reads
ObjectInputs ==
    { Object([command |-> c, primitive_type |-> p, object_name |-> o,
              offset |-> f, position |-> q, rotation |-> w]) :
          c \in CommandInputs,
          p \in {Absent, JStr("Cube"), JStr(""), JInt("5")},
          o \in {Absent, JStr("Cube_A"), None},
          f \in {Absent, V_ints, V_missing_z},
          q \in {Absent, V_strings, V_huge},
          w \in {Absent, V_ints, V_letter, V_nan, V_huge} }

Inputs == ScalarInputs \cup VectorInputs \cup ObjectInputs

InitValidator ==
    /\ NoRuns("validator")
    /\ arg \in Inputs
    /\ calls = <<>>
    /\ NoRequests

\* is_vector(arg)
CallIsVector ==
    /\ Len(calls) < MaxCalls
    /\ calls' = Append(calls, [fn |-> "is_vector", before |-> arg, after |-> arg,
                               out |-> [value |-> is_vector(arg)]])
    /\ UNCHANGED <<arg, run_vars, handler_vars>>

\* validate_payload(arg): the caller's object is the one the function writes to
CallValidate ==
    /\ Len(calls) < MaxCalls
    /\ arg' = validate_payload(arg).payload
    /\ calls' = Append(calls, [fn |-> "validate_payload", before |-> arg,
                               after |-> validate_payload(arg).payload,
                               out |-> validate_payload(arg)])
    /\ UNCHANGED <<run_vars, handler_vars>>

NextValidator == CallIsVector \/ CallValidate

SpecValidator == InitValidator /\ [][NextValidator]_vars

(***************************************************************************)
(* process_input, the handler of POST /process.  Each request has a frame: *)
(* the three fields read from the request body, the transcript, and the    *)
(* local variable chat_history.  The function assigns to chat_history      *)
(* (lines 378, 394) and holds no `global` statement, so the name is a      *)
(* local of the function, unbound when the function is entered; the module *)
(* global of line 345 is another variable.  An exception that leaves the   *)
(* handler is answered by Flask with status 500.                           *)
(***************************************************************************)
\* number of concurrent /process requests
NRequests == 2

Unbound == "<unbound>"
NoTranscript == [t |-> "null"]
NoResponse == [status |-> 0]

\* data.get("audio"): absent, text with incorrect base64 padding, encoded audio
AudioInputs == {None, JStr("abc"), JStr("UklGRg==")}
\* data.get("image")
ImageInputs == {None, JStr("iVBORw0=")}
\* data.get("context"): absent, an empty object, an object
ContextInputs == {None, JDict(EmptyItems), JDict([selected |-> JStr("Cube_A")])}
\* result["text"] of stt_model.transcribe
Transcripts == {"", "spawn a cube"}

Frame(audio, image, context) ==
    [pc |-> "received", audio_b64 |-> audio, image_b64 |-> image, context |-> context,
     voice_command_text |-> NoTranscript, chat_history |-> Unbound,
     exception |-> "", response |-> NoResponse]

InitProcess ==
    /\ NoRuns("process")
    /\ NoValidatorCalls
    /\ chat_history = ""
    /\ requests \in [1..NRequests ->
                        {Frame(a, i, c) : a \in AudioInputs, i \in ImageInputs,
                                          c \in ContextInputs}]

\* base64.b64decode(audio_b64): "ok" or the exception it raises
b64decode(audio_b64) ==
    CASE audio_b64.t # "str" -> "TypeError"
      [] audio_b64.v = "abc" -> "binascii.Error"
      [] OTHER -> "ok"

\* an exception leaves process_input: Flask answers 500 Internal Server Error
Fault(q, exc) ==
    requests' = [requests EXCEPT ![q].pc = "fault", ![q].exception = exc,
                                 ![q].response = [status |-> 500]]

\* lines 349-369: read the request, decode the audio, write temp.wav,
\* transcribe it, remove the file.  temp.wav is one file for all requests, so
\* the transcript is whatever the speech model makes of the file it finds
Transcribe(q) ==
    /\ requests[q].pc = "received"
    /\ IF b64decode(requests[q].audio_b64) # "ok"
       THEN Fault(q, b64decode(requests[q].audio_b64))
       ELSE \/ \E text \in Transcripts :
                  requests' = [requests EXCEPT ![q].pc = "transcribed",
                                               ![q].voice_command_text = JStr(text)]
            \/ Fault(q, "RuntimeError")
    /\ UNCHANGED <<chat_history, run_vars, validator_vars>>

\* lines 371-392: build the prompt, which reads chat_history (line 376),
\* append the question to chat_history (line 378), build the messages and
\* call request_with_validation
BuildPrompt(q) ==
    /\ requests[q].pc = "transcribed"
    /\ IF requests[q].chat_history = Unbound
       THEN Fault(q, "UnboundLocalError")
       ELSE requests' =
                [requests EXCEPT
                    ![q].pc = "orchestrating",
                    ![q].chat_history =
                        @ \o "Question: " \o requests[q].voice_command_text.v \o "\n"]
    /\ UNCHANGED <<chat_history, run_vars, validator_vars>>

NextProcess ==
    \/ \E q \in DOMAIN requests : Transcribe(q)
    \/ \E q \in DOMAIN requests : BuildPrompt(q)

SpecProcess == InitProcess /\ [][NextProcess]_vars

(***************************************************************************)
(* Vocabulary of the properties.                                           *)
(***************************************************************************)
\* the calls run r has submitted
CallsOf(r) == {c \in DOMAIN futures : c[1] = r}

\* the text without its surrounding whitespace
Stripped(text) == [id |-> text.id, ws |-> FALSE, form |-> text.form, val |-> text.val]

\* the run stopped on an infrastructure failure: a timeout or a transport error
TimedOut(r) == error_message[r] = TimeoutMessage
TransportFailed(r) == error_message[r] = JStr("Ollama request failed: ConnectionError")
Fatal(r) == TimedOut(r) \/ TransportFailed(r)

\* the text is a JSON document whose value validate_payload accepts
ValidText(text) ==
    /\ text.form = "json"
    /\ validate_payload(text.val).exc = "none"
    /\ validate_payload(text.val).valid

\* the text is a content failure: unparsable, or parsed and rejected
ContentFailureText(text) ==
    \/ text.form \in {"prose", "fenced"}
    \/ /\ text.form = "json"
       /\ validate_payload(text.val).exc = "none"
       /\ ~validate_payload(text.val).valid

\* call c returned a completion (not an exception)
Completed(c) ==
    /\ c \in DOMAIN futures
    /\ futures[c].state = "FINISHED"
    /\ futures[c].exception = ""

\* the run has taken the outcome of its current call from the future
Consumed(r) == pc[r] \in {"done", "raised"} /\ ~TimedOut(r)

IsPrefix(a, b) == Len(a) <= Len(b) /\ SubSeq(b, 1, Len(a)) = a

UserTurns(conv) == {i \in 1..Len(conv) : conv[i].role = "user"}

(***************************************************************************)
(* C1.  A transport error or a deadline timeout on attempt k ends the run  *)
(* at once: the run is in its exit path or has returned, no call beyond    *)
(* the one of attempt k exists (whatever budget remains), and what it      *)
(* returns has success = false.  A first-attempt timeout therefore leaves  *)
(* exactly one completion call.                                            *)
(***************************************************************************)
C1_FatalEndsRun ==
    \A r \in runs :
        Fatal(r) =>
            /\ pc[r] \in {"cancel", "done"}
            /\ future[r] = CallId(r, attempt[r])
            /\ CallsOf(r) = {CallId(r, k) : k \in 0..attempt[r]}
            /\ pc[r] = "done" =>
                   /\ ret[r].returned
                   /\ ret[r].success = FALSE
                   /\ ret[r].payload = None

\* a first-attempt timeout with budget left: failure after exactly one call
C1_Witness ==
    \E r \in runs :
        /\ TimedOut(r)
        /\ pc[r] = "done"
        /\ max_attempts[r] = 2
        /\ attempt[r] = 0
        /\ Cardinality(CallsOf(r)) = 1
        /\ ret[r].success = FALSE

(***************************************************************************)
(* C2.  Whatever the completions were: success = true is returned only if  *)
(* the completion of the attempt that ended the run was a JSON document    *)
(* that validate_payload accepted, and then the command returned is that   *)
(* validated payload and the error is None; with success = false the       *)
(* command is None and the error is a non-empty string (also when          *)
(* max_attempts = 0).                                                      *)
(***************************************************************************)
C2_SuccessOnlyIfValidated ==
    \A r \in runs :
        ret[r].returned =>
            IF ret[r].success
            THEN /\ Completed(future[r])
                 /\ futures[future[r]].result.form = "json"
                 /\ validate_payload(futures[future[r]].result.val).exc = "none"
                 /\ validate_payload(futures[future[r]].result.val).valid
                 /\ ret[r].payload = validate_payload(futures[future[r]].result.val).payload
                 /\ ret[r].payload # None
                 /\ ret[r].error = None
            ELSE /\ ret[r].payload = None
                 /\ ret[r].error.t = "str"
                 /\ ret[r].error.v # ""

\* a success whose command was normalised: Spawn_Object came back as spawn_object
C2_Witness ==
    \E r \in runs :
        /\ ret[r].returned
        /\ ret[r].success
        /\ futures[future[r]].result.val = P_spawn_mixed
        /\ ret[r].payload.f["command"] = JStr("spawn_object")
        /\ ret[r].payload.f["primitive_type"] = JStr("Cube")

(***************************************************************************)
(* C3.  If the first k-1 completions of a run are content failures and the *)
(* k-th is a valid payload (k <= max_attempts), then once the run has      *)
(* taken the k-th it has returned success from attempt k with that         *)
(* payload, and its conversation holds exactly k-1 user turns beyond the   *)
(* initial conversation.                                                   *)
(***************************************************************************)
C3_SuccessAfterCorrections ==
    \A r \in runs :
        \A k \in 1..max_attempts[r] :
            ( /\ \A j \in 1..k : Completed(<<r, j>>)
              /\ \A j \in 1..(k - 1) : ContentFailureText(futures[<<r, j>>].result)
              /\ ValidText(futures[<<r, k>>].result)
              /\ future[r] = <<r, k>>
              /\ Consumed(r) )
            =>
            ( /\ pc[r] = "done"
              /\ ret[r].returned
              /\ ret[r].success
              /\ attempt[r] = k - 1
              /\ ret[r].raw = Stripped(futures[<<r, k>>].result)
              /\ ret[r].payload = validate_payload(futures[<<r, k>>].result.val).payload
              /\ Cardinality(UserTurns(heap[messages[r]]))
                     = Cardinality(UserTurns(heap[base_messages[r]])) + (k - 1) )

\* [non-JSON text, valid translate_mesh payload] with max_attempts = 2
C3_Witness ==
    \E r \in runs :
        /\ max_attempts[r] = 2
        /\ Completed(<<r, 1>>) /\ futures[<<r, 1>>].result.form = "prose"
        /\ Completed(<<r, 2>>) /\ futures[<<r, 2>>].result.val = P_translate
        /\ futures[<<r, 2>>].result.form = "json"
        /\ ret[r].returned /\ ret[r].success
        /\ attempt[r] = 1
        /\ Cardinality(UserTurns(heap[messages[r]])) = 2

\* the error_message an attempt that ended in this content failure leaves
DiagnosticOf(text) ==
    IF text.form # "json"
    THEN JStr("Model response was not valid JSON: Expecting value: line 1 column 1 (char 0)")
    ELSE JStr("Invalid command payload: " \o validate_payload(text.val).diag)

(***************************************************************************)
(* C4.  When every one of the max_attempts attempts returned a completion  *)
(* and each was a content failure, the run returns failure; its raw text   *)
(* is the last attempt's output without surrounding whitespace and its     *)
(* error is the diagnostic of that last attempt.                           *)
(***************************************************************************)
C4_ExhaustedReportsLast ==
    \A r \in runs :
        ( /\ max_attempts[r] > 0
          /\ \A k \in 1..max_attempts[r] :
                 Completed(<<r, k>>) /\ ContentFailureText(futures[<<r, k>>].result)
          /\ Consumed(r) )
        =>
        ( /\ pc[r] = "done"
          /\ ret[r].returned
          /\ ret[r].success = FALSE
          /\ ret[r].raw = Stripped(futures[<<r, max_attempts[r]>>].result)
          /\ ret[r].error = DiagnosticOf(futures[<<r, max_attempts[r]>>].result) )

\* two different content failures, the last one with surrounding whitespace
\* and a diagnostic that differs from the first one's
C4_Witness ==
    \E r \in runs :
        /\ max_attempts[r] = 2
        /\ Completed(<<r, 1>>) /\ futures[<<r, 1>>].result.form = "prose"
        /\ Completed(<<r, 2>>) /\ futures[<<r, 2>>].result.val = P_spawn_missing
        /\ futures[<<r, 2>>].result.ws
        /\ ret[r].returned
        /\ ret[r].raw.val = P_spawn_missing
        /\ ret[r].error = JStr("Invalid command payload: spawn_object requires 'primitive_type'.")

\* the Command and Vector3 invariants of the data model
IsFiniteNumber(value) ==
    \/ value.t = "int"
    \/ value.t = "float" /\ value.v \notin {"nan", "inf", "-inf"}
    \/ value.t = "str" /\ value.v \in {"1.5", "0", "-2"}

IsVector3(value) ==
    /\ value.t = "dict"
    /\ {"x", "y", "z"} \subseteq DOMAIN value.f
    /\ \A axis \in {"x", "y", "z"} : IsFiniteNumber(value.f[axis])

HasString(p, key) == key \in DOMAIN p.f /\ p.f[key].t = "str"
HasVector3(p, key) == key \in DOMAIN p.f /\ IsVector3(p.f[key])

WellFormedCommand(p) ==
    /\ p.t = "dict"
    /\ HasString(p, "command")
    /\ p.f["command"].v \in ALLOWED_COMMANDS
    /\ p.f["command"].v = "spawn_object" => HasString(p, "primitive_type")
    /\ p.f["command"].v = "delete_object" => HasString(p, "object_name")
    /\ p.f["command"].v = "translate_mesh" =>
           HasVector3(p, "offset") \/ HasVector3(p, "position")
    /\ p.f["command"].v = "rotate_mesh" => HasVector3(p, "rotation")

(***************************************************************************)
(* C5.  Every command returned with success = true is a well-formed        *)
(* Command: the name is lower-case and allow-listed, and the fields of its *)
(* variant are present and well-typed (primitive_type and object_name      *)
(* strings; offset, position or rotation a vector of three finite          *)
(* numbers, a numeric-looking string counting as a number).                *)
(***************************************************************************)
C5_ReturnedCommandWellTyped ==
    \A r \in runs :
        (ret[r].returned /\ ret[r].success) => WellFormedCommand(ret[r].payload)

\* the attempts of r whose completion was taken and was a content failure
FailedAttempts(r) ==
    {k \in 1..max_attempts[r] :
        /\ Completed(<<r, k>>)
        /\ ContentFailureText(futures[<<r, k>>].result)
        /\ future[r] = <<r, k>> => Consumed(r)}

ConversationShape(r) ==
    LET conv == heap[messages[r]]
        n == Cardinality(FailedAttempts(r))
    IN  /\ FailedAttempts(r) = 1..n
        /\ Len(conv) = 1 + 2 * n
        /\ Len(conv) <= 1 + 2 * max_attempts[r]
        /\ conv[1] = InitialTurn(r)
        /\ \A k \in 1..n :
               /\ conv[2 * k].role = "assistant"
               /\ conv[2 * k].content = Stripped(futures[<<r, k>>].result)
               /\ conv[2 * k + 1].role = "user"
               /\ conv[2 * k + 1].content.t = "str"

(***************************************************************************)
(* C6.  Within a run the conversation is append-only.  In every step the   *)
(* old conversation is a prefix of the new one, and after the step the     *)
(* conversation is the initial conversation followed by one pair of turns  *)
(* per content failure taken so far, in attempt order: an assistant turn   *)
(* holding that attempt's stripped output, then a user turn.  Its length   *)
(* is at most the initial length plus 2 * max_attempts.                    *)
(***************************************************************************)
C6_AppendOnly ==
    [][\A r \in runs :
          /\ messages[r] # NoRef =>
                 /\ messages'[r] = messages[r]
                 /\ IsPrefix(heap[messages[r]], heap'[messages[r]])
          /\ messages'[r] # NoRef => ConversationShape(r)']_vars

\* two content failures taken: the conversation has grown by two pairs
C6_Witness ==
    \E r \in runs :
        /\ messages[r] # NoRef
        /\ Len(heap[messages[r]]) = 5
        /\ heap[messages[r]][2].content.form = "fenced"
        /\ heap[messages[r]][4].content.val = P_unknown

\* the calls of r that are queued or executing
Unfinished(r) == {c \in CallsOf(r) : futures[c].state \in {"PENDING", "RUNNING"}}

(***************************************************************************)
(* C7.  Within a run attempts are strictly sequential: a call of a run     *)
(* other than the one its future variable holds has finished, the call of  *)
(* attempt N+1 exists only when the call of attempt N has finished, and a  *)
(* run never has more than one unfinished call.                            *)
(***************************************************************************)
C7_SequentialAttempts ==
    \A r \in runs :
        /\ \A c \in CallsOf(r) : c # future[r] => futures[c].state = "FINISHED"
        /\ \A c \in CallsOf(r) :
               c[2] > 1 => /\ <<r, c[2] - 1>> \in DOMAIN futures
                           /\ futures[<<r, c[2] - 1>>].state = "FINISHED"
        /\ \A c \in CallsOf(r) : c[2] <= attempt[r] + 1
        /\ Cardinality(Unfinished(r)) <= 1

\* two runs wait at once, one of them for its second call
C7_Witness ==
    \E r, q \in runs :
        /\ r # q
        /\ pc[r] = "await" /\ future[r] = <<r, 2>>
        /\ futures[<<r, 2>>].state = "RUNNING"
        /\ futures[<<r, 1>>].state = "FINISHED"
        /\ pc[q] = "await" /\ futures[future[q]].state = "RUNNING"

(***************************************************************************)
(* C8.  Once the deadline of a call has expired its response is never      *)
(* used: what the run returns is a failure without a command, and the late *)
(* text is neither the last_output (the text that was parsed) or raw text  *)
(* of any run nor the content of a turn of any conversation.               *)
(***************************************************************************)
C8_LateResponseDiscarded ==
    \A r \in runs :
        TimedOut(r) =>
            /\ ret[r].returned => (ret[r].success = FALSE /\ ret[r].payload = None)
            /\ \A q \in runs :
                   /\ last_output[q].id # future[r]
                   /\ ret[q].returned => ret[q].raw.id # future[r]
            /\ \A ref \in DOMAIN heap :
                   \A i \in 1..Len(heap[ref]) :
                       heap[ref][i].role = "assistant" =>
                           heap[ref][i].content.id # future[r]

\* the cancellation lost the race: the call ran on and delivered a valid
\* payload after the run had returned its timeout failure
C8_Witness ==
    \E r \in runs :
        /\ TimedOut(r)
        /\ pc[r] = "done"
        /\ attempt[r] = 1
        /\ futures[future[r]].state = "FINISHED"
        /\ ValidText(futures[future[r]].result)
        /\ ret[r].raw.id = <<r, 1>>

(***************************************************************************)
(* C9.  In every step: at most max_workers (2) calls are executing; a new  *)
(* call is PENDING at the tail of the queue; the queue changes only by an  *)
(* append at its tail or the removal of its head; and a call that starts   *)
(* to execute was the head of the queue, the oldest one waiting.           *)
(***************************************************************************)
C9_BoundedPoolFIFO ==
    [][/\ Cardinality(Running') <= max_workers
       /\ \A c \in DOMAIN futures' :
              c \notin DOMAIN futures =>
                  /\ futures'[c].state = "PENDING"
                  /\ work_queue' = Append(work_queue, c)
       /\ \/ work_queue' = work_queue
          \/ work_queue # <<>> /\ work_queue' = Tail(work_queue)
          \/ \E c \in DOMAIN futures' : work_queue' = Append(work_queue, c)
       /\ \A c \in DOMAIN futures :
              (futures[c].state # "RUNNING" /\ futures'[c].state = "RUNNING") =>
                  /\ work_queue # <<>>
                  /\ c = Head(work_queue)
                  /\ work_queue' = Tail(work_queue)]_vars

\* both workers are busy and a third call waits in the queue
C9_Witness ==
    /\ Cardinality(Running) = max_workers
    /\ Len(work_queue) = 1
    /\ futures[work_queue[1]].state = "PENDING"
    /\ \E r \in runs : pc[r] = "await" /\ future[r] = work_queue[1]

(***************************************************************************)
(* C10.  The conversation of a run is its own object: it is neither the    *)
(* caller's base_messages nor the conversation of another run, every call  *)
(* of the run was submitted with it, it holds the run's initial turn and   *)
(* corrective turns built from the run's own completions only, and the     *)
(* caller's base_messages list stays as the caller built it.               *)
(***************************************************************************)
C10_ConversationOwned ==
    \A r \in runs :
        /\ heap[base_messages[r]] = <<InitialTurn(r)>>
        /\ \A c \in CallsOf(r) : futures[c].args = messages[r]
        /\ messages[r] # NoRef =>
               /\ \A q \in runs : messages[r] # base_messages[q]
               /\ \A q \in runs \ {r} : messages[r] # messages[q]
               /\ heap[messages[r]][1] = InitialTurn(r)
               /\ \A i \in 2..Len(heap[messages[r]]) :
                      LET turn == heap[messages[r]][i]
                      IN  IF i % 2 = 0
                          THEN /\ turn.role = "assistant"
                               /\ turn.content.id = <<r, i \div 2>>
                               /\ Completed(turn.content.id)
                               /\ turn.content = Stripped(futures[turn.content.id].result)
                          ELSE /\ turn.role = "user"
                               /\ turn.content.t = "str"

\* two runs hold corrective turns at once, each waiting for its second call
C10_Witness ==
    \E r, q \in runs :
        /\ r # q
        /\ pc[r] = "await" /\ Len(heap[messages[r]]) = 3
        /\ pc[q] = "await" /\ Len(heap[messages[q]]) = 3
        /\ heap[messages[r]][2].content.id = <<r, 1>>
        /\ heap[messages[q]][2].content.id = <<q, 1>>

(***************************************************************************)
(* Vocabulary of the validator properties.                                 *)
(***************************************************************************)
\* the calls of validate_payload / is_vector made so far
ValidateCalls == {i \in 1..Len(calls) : calls[i].fn = "validate_payload"}
VectorCalls == {i \in 1..Len(calls) : calls[i].fn = "is_vector"}

\* the call returned (valid, diag)
Answered(out, valid, diag) == out.exc = "none" /\ out.valid = valid /\ out.diag = diag

\* the diagnostic of the field predicate of a registry command
RequirementDiag(name) ==
    CASE name = "spawn_object" -> "spawn_object requires 'primitive_type'."
      [] name = "delete_object" -> "delete_object requires 'object_name'."
      [] name = "translate_mesh" -> "translate_mesh requires 'offset' or 'position' vector."
      [] name = "rotate_mesh" -> "rotate_mesh requires 'rotation' vector."

\* the command field is absent, empty or not a string
NoCommand(p) ==
    \/ "command" \notin DOMAIN p.f
    \/ p.f["command"].t # "str"
    \/ p.f["command"].v = ""

(***************************************************************************)
(* C11.  validate_payload classifies failures in a fixed order.  A value   *)
(* that is not an object fails as not-an-object; otherwise a command that  *)
(* is absent, empty or not a string fails as missing-command; otherwise a  *)
(* command whose lower-case form is not in the registry fails as           *)
(* unknown-command, the diagnostic quoting the string as it was given;     *)
(* only for a registry command does the outcome come from the command's    *)
(* field predicate: valid, or that command's requirement diagnostic.       *)
(***************************************************************************)
C11_FailureOrder ==
    \A i \in ValidateCalls :
        LET p == calls[i].before
            out == calls[i].out
        IN  IF p.t # "dict"
            THEN Answered(out, FALSE, "Response must be a JSON object.")
            ELSE IF NoCommand(p)
            THEN Answered(out, FALSE, "Missing or invalid 'command' field.")
            ELSE IF lower(p.f["command"].v) \notin ALLOWED_COMMANDS
            THEN Answered(out, FALSE,
                          "Command '" \o p.f["command"].v \o "' is not in the allowed list.")
            ELSE out.exc = "none" =>
                     \/ out.valid
                     \/ out.diag = RequirementDiag(lower(p.f["command"].v))

\* an unknown command given in mixed case, in a payload that carries every
\* field: it fails as unknown-command and the diagnostic quotes it as given
C11_Witness ==
    \E i \in ValidateCalls :
        /\ calls[i].before.t = "dict"
        /\ DOMAIN calls[i].before.f =
               {"command", "primitive_type", "object_name", "offset", "position", "rotation"}
        /\ calls[i].before.f["command"] = JStr("Scale_Mesh")
        /\ calls[i].out.diag = "Command 'Scale_Mesh' is not in the allowed list."

\* the spellings of a registry name that differ from it in letter case only
CaseVariants(name) ==
    CASE name = "spawn_object" -> {"spawn_object", "Spawn_Object", "SPAWN_OBJECT"}
      [] name = "delete_object" -> {"delete_object", "Delete_Object", "DELETE_OBJECT"}
      [] name = "translate_mesh" -> {"translate_mesh", "Translate_Mesh", "TRANSLATE_MESH"}
      [] name = "rotate_mesh" -> {"rotate_mesh", "Rotate_Mesh", "ROTATE_MESH"}

\* the payload with its command field replaced
WithCommand(p, name) == JDict([p.f EXCEPT !["command"] = JStr(name)])

\* two outcomes agree in what is returned or raised
SameVerdict(a, b) == a.valid = b.valid /\ a.diag = b.diag /\ a.exc = b.exc

(***************************************************************************)
(* C12.  Command names match in any letter case.  For a payload whose      *)
(* command is a case variant of a registry name, validate_payload returns  *)
(* (or raises) what it does for the same payload with the lower-case name, *)
(* and leaves the lower-case name in the payload's command field.          *)
(***************************************************************************)
C12_CaseInsensitive ==
    \A i \in ValidateCalls :
        \A name \in {"spawn_object", "delete_object", "translate_mesh", "rotate_mesh"} :
            LET p == calls[i].before
            IN  ( /\ p.t = "dict"
                  /\ "command" \in DOMAIN p.f
                  /\ p.f["command"].t = "str"
                  /\ p.f["command"].v \in CaseVariants(name) )
                =>
                ( /\ SameVerdict(calls[i].out, validate_payload(WithCommand(p, name)))
                  /\ calls[i].after = validate_payload(WithCommand(p, name)).payload
                  /\ calls[i].after.f["command"] = JStr(name) )

\* {"command": "Spawn_Object", "primitive_type": "Cube"} validates and holds
\* spawn_object afterwards
C12_Witness ==
    \E i \in ValidateCalls :
        /\ calls[i].before = P_spawn_mixed
        /\ Answered(calls[i].out, TRUE, "")
        /\ calls[i].after =
               JDict([command |-> JStr("spawn_object"), primitive_type |-> JStr("Cube")])
        /\ arg = calls[i].after

\* a correctly typed string field: a string that is not empty
IsText(value) == value.t = "str" /\ value.v # ""

\* a correctly typed axis: a number a float can hold, or a string that reads
\* as one
IsFloatValue(value) ==
    \/ value.t = "int" /\ value # HugeInt
    \/ value.t = "float" /\ value.v \notin {"nan", "inf", "-inf"}
    \/ value.t = "str" /\ value.v \in {"1.5", "0", "-2"}

\* a correctly typed vector: x, y and z, each a correctly typed axis
IsTypedVector(value) ==
    /\ value.t = "dict"
    /\ {"x", "y", "z"} \subseteq DOMAIN value.f
    /\ \A axis \in {"x", "y", "z"} : IsFloatValue(value.f[axis])

\* the payload is an object whose command is a spelling of the registry name
IsCommand(p, name) ==
    /\ p.t = "dict"
    /\ ~NoCommand(p)
    /\ p.f["command"].v \in CaseVariants(name)

\* the payload carries the required fields of the registry command, correctly
\* typed, and no other field
ExactlyRequired(p, name) ==
    /\ IsCommand(p, name)
    /\ CASE name = "spawn_object" ->
              /\ DOMAIN p.f = {"command", "primitive_type"}
              /\ IsText(p.f["primitive_type"])
         [] name = "delete_object" ->
              /\ DOMAIN p.f = {"command", "object_name"}
              /\ IsText(p.f["object_name"])
         [] name = "translate_mesh" ->
              /\ DOMAIN p.f \in {{"command", "offset"}, {"command", "position"},
                                 {"command", "offset", "position"}}
              /\ \A key \in DOMAIN p.f \ {"command"} : IsTypedVector(p.f[key])
         [] name = "rotate_mesh" ->
              /\ DOMAIN p.f = {"command", "rotation"}
              /\ IsTypedVector(p.f["rotation"])

RequiredFields(name) ==
    CASE name = "spawn_object" -> {"primitive_type"}
      [] name = "delete_object" -> {"object_name"}
      [] name = "translate_mesh" -> {"offset", "position"}
      [] name = "rotate_mesh" -> {"rotation"}

\* the payload has none of the fields that would meet the command's requirement
MissingRequired(p, name) == IsCommand(p, name) /\ RequiredFields(name) \cap DOMAIN p.f = {}

(***************************************************************************)
(* C14.  For every command of the registry, a payload that lacks the       *)
(* required field (primitive_type; object_name; both offset and position;  *)
(* rotation), whatever else it carries, fails validation, and the          *)
(* diagnostic is the one that names the command and what it requires.      *)
(***************************************************************************)
C14_MissingFieldDiagnosed ==
    \A i \in ValidateCalls :
        \A name \in {"spawn_object", "delete_object", "translate_mesh", "rotate_mesh"} :
            MissingRequired(calls[i].before, name) =>
                Answered(calls[i].out, FALSE, RequirementDiag(name))

\* a delete_object without object_name that carries every other field, among
\* them a rotation no float can hold: the diagnostic names delete_object
C14_Witness ==
    \E i \in ValidateCalls :
        /\ MissingRequired(calls[i].before, "delete_object")
        /\ DOMAIN calls[i].before.f =
               {"command", "primitive_type", "offset", "position", "rotation"}
        /\ calls[i].before.f["rotation"] = V_huge
        /\ calls[i].out.diag = "delete_object requires 'object_name'."

(***************************************************************************)
(* C15.  is_vector accepts a value exactly when it is a mapping that has   *)
(* all of x, y and z, each a finite number or a string that reads as one;  *)
(* every other value (a missing axis, a non-numeric axis, an axis that is  *)
(* NaN or infinite) is rejected: is_vector returns False.                  *)
(***************************************************************************)
C15_VectorFiniteOnly ==
    \A i \in VectorCalls :
        calls[i].out.value = IF IsVector3(calls[i].before) THEN "True" ELSE "False"

(***************************************************************************)
(* C16.  validate_payload never raises: for every value json.loads can     *)
(* produce, the call returns a pair (valid, diagnostic).                   *)
(***************************************************************************)
C16_NeverRaises ==
    \A i \in ValidateCalls : calls[i].out.exc = "none"

\* the audio of the request was transcribed
Transcribed(q) == requests[q].voice_command_text # NoTranscript

(***************************************************************************)
(* C17.  A /process request whose audio is transcribed reaches the         *)
(* orchestrator and is answered with the JSON object of success, error,    *)
(* raw, command and transcript: it never ends in an exception that leaves  *)
(* the handler, and its response is never the server's status 500.         *)
(***************************************************************************)
C17_TranscribedIsAnswered ==
    \A q \in DOMAIN requests :
        Transcribed(q) =>
            /\ requests[q].pc # "fault"
            /\ requests[q].response.status # 500

\* a step of the run itself, whatever the workers and the backend do
RunStep(r) == Call(r) \/ Receive(r) \/ DeadlineExpires(r) \/ CancelAndFail(r)

\* the run has returned one of its three outcomes: success; fatal (timeout
\* or transport error); exhausted (every attempt of the budget was made)
TerminalOutcome(r) ==
    /\ pc[r] = "done"
    /\ ret[r].returned
    /\ \/ ret[r].success
       \/ ~ret[r].success /\ Fatal(r)
       \/ ~ret[r].success /\ ~Fatal(r) /\ Cardinality(CallsOf(r)) = max_attempts[r]

(***************************************************************************)
(* C18.  Every run reaches a terminal outcome.  At any moment the run has  *)
(* submitted one call per attempt begun, at most max_attempts in all, and  *)
(* it either has returned success, exhausted or fatal, or can itself take  *)
(* a further step, whether or not the backend ever answers or a worker     *)
(* ever takes the call from the queue (the deadline ends the wait); the    *)
(* loop index grows with every attempt, so the steps are finitely many.    *)
(* With max_attempts = 0 the run makes no call and returns failure.        *)
(***************************************************************************)
C18_RunTerminates ==
    \A r \in runs :
        /\ CallsOf(r) = {<<r, j>> : j \in 1..Cardinality(CallsOf(r))}
        /\ Cardinality(CallsOf(r)) <= max_attempts[r]
        /\ CallsOf(r) # {} => Cardinality(CallsOf(r)) = attempt[r] + 1
        /\ (max_attempts[r] = 0 /\ pc[r] # "ready") =>
               /\ CallsOf(r) = {}
               /\ ret[r].returned /\ ret[r].success = FALSE
        /\ \/ TerminalOutcome(r)
           \/ pc[r] \in {"ready", "await", "cancel"} /\ ENABLED RunStep(r)

\* the completion is the payload the corrective prompts ask for when in doubt
IsUnknownText(text) == text.form = "json" /\ text.val = P_unknown

\* the run has taken the completion of its k-th call
Taken(r, k) ==
    /\ Completed(<<r, k>>)
    /\ future[r] = <<r, k>> => Consumed(r)

UnknownDiag == "Command 'unknown' is not in the allowed list."

(***************************************************************************)
(* C19.  A completion {"command": "unknown", "reason": ...} never ends a   *)
(* run by itself.  Once the run has taken it as the completion of attempt  *)
(* k, the run has not returned success from it, the conversation holds the *)
(* corrective pair of that attempt (the echoed output, then a user turn    *)
(* that starts with the unknown-command diagnostic), and one attempt is    *)
(* used up: the call of attempt k+1 exists if k < max_attempts, else the   *)
(* run has returned the exhausted failure with that diagnostic.  A run     *)
(* whose every completion is this payload so ends in failure after exactly *)
(* max_attempts calls.                                                     *)
(***************************************************************************)
C19_UnknownConsumesAttempt ==
    \A r \in runs :
        \A k \in 1..max_attempts[r] :
            (Taken(r, k) /\ IsUnknownText(futures[<<r, k>>].result)) =>
                LET conv == heap[messages[r]]
                    text == Stripped(futures[<<r, k>>].result)
                IN  /\ ~(ret[r].returned /\ ret[r].success /\ attempt[r] = k - 1)
                    /\ Len(conv) >= 2 * k + 1
                    /\ conv[2 * k] = [role |-> "assistant", content |-> text]
                    /\ conv[2 * k + 1] = ValidationCorrection(text, UnknownDiag)[2]
                    /\ IF k < max_attempts[r]
                       THEN <<r, k + 1>> \in DOMAIN futures
                       ELSE /\ pc[r] = "done"
                            /\ ret[r] = Returned(None, text, FALSE,
                                                 JStr("Invalid command payload: " \o UnknownDiag))
                            /\ CallsOf(r) = {<<r, j>> : j \in 1..max_attempts[r]}

\* the model answered unknown on both attempts: failure after two calls, two
\* corrective pairs in the conversation
C19_Witness ==
    \E r \in runs :
        /\ max_attempts[r] = 2
        /\ Taken(r, 1) /\ IsUnknownText(futures[<<r, 1>>].result)
        /\ Taken(r, 2) /\ IsUnknownText(futures[<<r, 2>>].result)
        /\ Cardinality(CallsOf(r)) = 2
        /\ Len(heap[messages[r]]) = 5
        /\ ret[r].returned
        /\ ret[r].success = FALSE
        /\ ret[r].error = JStr("Invalid command payload: " \o UnknownDiag)

\* the diagnostics of the three failures that precede the field predicate
EarlyFailure(p, out) ==
    /\ out.exc = "none"
    /\ ~out.valid
    /\ \/ out.diag = "Response must be a JSON object."
       \/ out.diag = "Missing or invalid 'command' field."
       \/ /\ p.t = "dict" /\ ~NoCommand(p)
          /\ out.diag = "Command '" \o p.f["command"].v \o "' is not in the allowed list."

\* the two values differ at most in the command field of an object
SameButCommand(a, b) ==
    IF a.t = "dict" /\ b.t = "dict"
    THEN /\ DOMAIN a.f \ {"command"} = DOMAIN b.f \ {"command"}
         /\ \A key \in DOMAIN a.f \ {"command"} : a.f[key] = b.f[key]
    ELSE a = b

(***************************************************************************)
(* C20.  validate_payload is a function of its argument with one effect.   *)
(* Two calls on equal arguments give equal verdicts and leave equal        *)
(* payloads; a call that fails as not-an-object, missing-command or        *)
(* unknown-command leaves the payload as it was; every call leaves every   *)
(* field other than command as it was; and validating a payload that has   *)
(* just validated returns valid again and changes nothing.                 *)
(***************************************************************************)
C20_PureExceptCommand ==
    /\ \A i, j \in ValidateCalls :
           calls[i].before = calls[j].before =>
               /\ SameVerdict(calls[i].out, calls[j].out)
               /\ calls[i].after = calls[j].after
    /\ \A i \in ValidateCalls :
           /\ EarlyFailure(calls[i].before, calls[i].out) => calls[i].after = calls[i].before
           /\ SameButCommand(calls[i].before, calls[i].after)
           /\ calls[i].out.payload = calls[i].after
           /\ Answered(calls[i].out, TRUE, "") =>
                  /\ validate_payload(calls[i].after) = Returns(TRUE, "", calls[i].after)
                  /\ (i + 1) \in ValidateCalls =>
                         /\ calls[i + 1].before = calls[i].after
                         /\ Answered(calls[i + 1].out, TRUE, "")
                         /\ calls[i + 1].after = calls[i].after

\* a DELETE_OBJECT that carries every field validates, its command becomes
\* delete_object and nothing else changes; validated again it is valid and
\* unchanged
C20_Witness ==
    /\ Len(calls) = 2
    /\ ValidateCalls = {1, 2}
    /\ calls[1].before.t = "dict"
    /\ DOMAIN calls[1].before.f =
           {"command", "primitive_type", "object_name", "offset", "position", "rotation"}
    /\ calls[1].before.f["command"] = JStr("DELETE_OBJECT")
    /\ calls[1].out.valid
    /\ calls[1].after = WithCommand(calls[1].before, "delete_object")
    /\ calls[2].out.valid
    /\ calls[2].after = calls[1].after
====
